---- MODULE Spec2Model ----
(***************************************************************************)
(* Model of the conversational front end (chat_interface.py) and of the    *)
(* orchestrator and agents it drives (idea_code.py).                       *)
(*                                                                         *)
(* Text is modelled as a sequence of one-character strings, so that        *)
(* lower(), strip(), replace(), split() and the substring tests of the     *)
(* dispatcher are computed as Python computes them.                        *)
(***************************************************************************)
EXTENDS Integers, Sequences, FiniteSets, TLC

(***************************************************************************)
(* Bounds of the model.                                                    *)
(***************************************************************************)
\* number of messages given to process_message in one conversation
MaxTurns == 4

\* the length of the longest text typed as a project name
MaxNameLen == 4

(***************************************************************************)
(* Text helpers (Python str methods).                                      *)
(***************************************************************************)
UpperLetters ==
    << "A","B","C","D","E","F","G","H","I","J","K","L","M",
       "N","O","P","Q","R","S","T","U","V","W","X","Y","Z" >>

LowerLetters ==
    << "a","b","c","d","e","f","g","h","i","j","k","l","m",
       "n","o","p","q","r","s","t","u","v","w","x","y","z" >>

\* the characters str.strip() and str.split() treat as whitespace
Whitespace == { " ", "\t" }

\* the lower-case letter of each upper-case letter
LowerOf ==
    [c \in { UpperLetters[i] : i \in 1..Len(UpperLetters) } |->
        LowerLetters[CHOOSE i \in 1..Len(UpperLetters) : UpperLetters[i] = c]]

\* str.lower() on one character
LowerChar(c) == IF c \in DOMAIN LowerOf THEN LowerOf[c] ELSE c

\* str.lower()
Lower(s) == [i \in 1..Len(s) |-> LowerChar(s[i])]

\* str.strip(): drop leading and trailing whitespace
Strip(s) ==
    LET keep == { i \in 1..Len(s) : s[i] \notin Whitespace }
    IN  IF keep = {} THEN << >>
        ELSE LET first == CHOOSE i \in keep : \A j \in keep : i <= j
                 last  == CHOOSE i \in keep : \A j \in keep : j <= i
             IN  SubSeq(s, first, last)

\* str.replace(" ", "-")
ReplaceSpaces(s) == [i \in 1..Len(s) |-> IF s[i] = " " THEN "-" ELSE s[i]]

\* the Python test  w in s  on strings
Contains(s, w) ==
    \E i \in 1..(Len(s) - Len(w) + 1) : SubSeq(s, i, i + Len(w) - 1) = w

\* s.startswith(w)
StartsWith(s, w) == Len(w) <= Len(s) /\ SubSeq(s, 1, Len(w)) = w

\* s.split()[-1]: the last whitespace-separated token of s
\* (s holds a non-whitespace character wherever the code applies it)
LastToken(s) ==
    LET keep == { i \in 1..Len(s) : s[i] \notin Whitespace }
        last == CHOOSE i \in keep : \A j \in keep : j <= i
        first == CHOOSE i \in 1..last :
                    /\ \A j \in i..last : s[j] \notin Whitespace
                    /\ (i = 1 \/ s[i-1] \in Whitespace)
    IN  SubSeq(s, first, last)

\* the value None, distinct from every text
None == << "None" >>

\* str(x) as an f-string formats it: None prints as the text None
Str(x) == IF x = None THEN << "N","o","n","e" >> ELSE x

\* Python truthiness of a value that is None or a str
Truthy(x) == x # None /\ x # << >>

(***************************************************************************)
(* Literal texts of the source.                                            *)
(***************************************************************************)
Yes == << "y","e","s" >>
Sure == << "s","u","r","e" >>
Okay == << "o","k","a","y" >>
DeployWord == << "d","e","p","l","o","y" >>
DestroyWord == << "d","e","s","t","r","o","y" >>
RemoveWord == << "r","e","m","o","v","e" >>
DeleteWord == << "d","e","l","e","t","e" >>
CreateWord == << "c","r","e","a","t","e" >>
StaticWebsite == << "s","t","a","t","i","c"," ","w","e","b","s","i","t","e" >>
AnalyzeWord == << "a","n","a","l","y","z","e" >>
TestConnection == << "t","e","s","t"," ","c","o","n","n","e","c","t","i","o","n" >>
AnalyzePrefix == << "A","n","a","l","y","z","e"," " >>
DeployPrefix == << "D","e","p","l","o","y"," " >>
DestroyPrefix == << "D","e","s","t","r","o","y"," " >>

(***************************************************************************)
(* The user messages of the model: each row of the dispatcher, upper case, *)
(* inner and outer whitespace, and keywords that occur together.           *)
(***************************************************************************)
Messages ==
    { << "y","e","s" >>,
      << "O","k","a","y",","," ","d","e","s","t","r","o","y"," ","i","t" >>,
      << "D","e","p","l","o","y"," ","i","t" >>,
      << "d","e","s","t","r","o","y" >>,
      << "c","r","e","a","t","e"," ","a"," ","s","t","a","t","i","c"," ","w","e","b","s","i","t","e" >>,
      << "M","y"," ","S","i","t","e" >>,
      << " ","a","\t","B"," " >>,
      << " "," " >> }

\* the error texts an external command can leave on stderr
ErrTexts == { "error: access denied", "error: stack not found" }

(***************************************************************************)
(* Values exchanged with the agents.                                       *)
(***************************************************************************)
\* one external invocation: a subprocess, a source-control API call or an
\* HTTP request, with its exit status and captured error text
Call(kind, cmd, arg, cwd, rc, stderr) ==
    [kind |-> kind, cmd |-> cmd, arg |-> arg, cwd |-> cwd, rc |-> rc,
     stderr |-> stderr, returned |-> ""]

\* a call of a method of the orchestrator or of an agent (not an external
\* invocation), with what it returned: "raised", or the status of its result
Enter(method, arg, returned) ==
    [kind |-> "method", cmd |-> method, arg |-> arg, cwd |-> << >>, rc |-> 0,
     stderr |-> "", returned |-> returned]

\* what json.loads and .get("status") make of a response
StatusOf(r) == IF r.parsable THEN r.status ELSE "not json"

ExternalKinds == { "subprocess", "github", "http" }

\* a json.dumps({...}) result of an agent
Json(status, message, cmd, error) ==
    [parsable |-> TRUE, status |-> status, message |-> message,
     analysis |-> "", cmd |-> cmd, error |-> error]

\* json.dumps({"status": "success", "analysis": ...})
JsonAnalysis(analysis) ==
    [parsable |-> TRUE, status |-> "success", message |-> "",
     analysis |-> analysis, cmd |-> "", error |-> ""]

\* a plain string that json.loads rejects
Plain(text) ==
    [parsable |-> FALSE, status |-> "", message |-> text,
     analysis |-> "", cmd |-> "", error |-> ""]

\* RunCommands without the raise on a non-zero exit: every command is run
RunCommands_NoAbort(commands, arg, cwd, failAt, err) ==
    [i \in 1..Len(commands) |->
        IF i = failAt
        THEN Call("subprocess", commands[i], arg, cwd, 1, err)
        ELSE Call("subprocess", commands[i], arg, cwd, 0, "")]

\* subprocess.run over commands[1..n] in order, stopping after the command at
\* failAt (0: none fails): the invocations made
RunCommands(commands, arg, cwd, failAt, err) ==
    LET n == IF failAt = 0 THEN Len(commands) ELSE failAt
    IN  [i \in 1..n |->
            IF i = failAt
            THEN Call("subprocess", commands[i], arg, cwd, 1, err)
            ELSE Call("subprocess", commands[i], arg, cwd, 0, "")]

(***************************************************************************)
(* GitOpsAgent (idea_code.py).                                             *)
(***************************************************************************)
GitCommands ==
    << "git init", "git add .", "git commit -m \"Initial commit\"",
       "git remote add origin {repo.clone_url}", "git branch -M main",
       "git push -u origin main" >>

\* the directory commit_code runs git in
BasePath == << "t","a","l","k","i","t","d","o","i","t","-","d","e","m","o","-","a","p","p" >>

\* what the source-control API and git do during one deployment: create_repo
\* and get_repo succeed or raise, git command gitFailAt (0: none) exits
\* non-zero; err is the failure's text
GitOutcomesOver(failPoints, errs) ==
    { [create_repo |-> TRUE, get_repo |-> TRUE, gitFailAt |-> 0, err |-> ""] }
    \cup { [create_repo |-> FALSE, get_repo |-> TRUE, gitFailAt |-> 0, err |-> e] :
             e \in errs }
    \cup { [create_repo |-> c, get_repo |-> FALSE, gitFailAt |-> 0, err |-> e] :
             c \in BOOLEAN, e \in errs }
    \cup { [create_repo |-> c, get_repo |-> TRUE, gitFailAt |-> k, err |-> e] :
             c \in BOOLEAN, k \in failPoints, e \in errs }

GitOutcomes == GitOutcomesOver(1..Len(GitCommands), ErrTexts)

\* create_repository: one API call; an exception becomes the returned text
create_repository(name, o) ==
    IF o.create_repo
    THEN [text |-> "Created repository: {repo.html_url}", error |-> "",
          calls |-> << Call("github", "create_repo", name, << >>, 0, "") >>]
    ELSE [text |-> "Failed to create repository: {str(e)}", error |-> o.err,
          calls |-> << Call("github", "create_repo", name, << >>, 1, o.err) >>]

\* commit_code: get_repo, then the git commands in order; check=True raises at
\* the first non-zero exit and the exception becomes the returned text
commit_code(name, o) ==
    IF ~o.get_repo
    THEN [text |-> "Failed to commit code: {str(e)}", error |-> o.err,
          calls |-> << Call("github", "get_repo", name, << >>, 1, o.err) >>]
    ELSE LET run == RunCommands(GitCommands, name, BasePath, o.gitFailAt, o.err)
             all == << Call("github", "get_repo", name, << >>, 0, "") >> \o run
         IN  IF o.gitFailAt # 0
             THEN [text |-> "Failed to commit code: {str(e)}", error |-> o.err,
                   calls |-> all]
             ELSE [text |-> "Code committed to repository: {repo.html_url}",
                   error |-> "", calls |-> all]

(***************************************************************************)
(* DeploymentAgent (idea_code.py).                                         *)
(***************************************************************************)
DeployCommands ==
    << "pulumi login", "go mod tidy",
       "pulumi stack select talkitdoit-org/{project_name}/dev",
       "pulumi config set azure-native:location eastus",
       "pulumi up --yes" >>

DestroyCommands ==
    << "pulumi login",
       "pulumi stack select talkitdoit-org/{project_name}/dev",
       "pulumi destroy --yes" >>

OutputCommand == "pulumi stack output --json"

\* what the provisioning CLI does during deploy(): command failAt exits
\* non-zero with err on stderr, or all exit zero (failAt = 0) and the
\* stack-output query prints JSON, exits non-zero, or prints text that is not JSON;
\* print: whether the print() of BaseAgent.communicate succeeds
DeployOutcomesOver(failPoints, errs) ==
    { [failAt |-> k, err |-> e, output |-> "json", print |-> TRUE] :
        k \in failPoints, e \in errs }
    \cup { [failAt |-> 0, err |-> "", output |-> q, print |-> TRUE] :
             q \in { "json", "nonzero", "not json" } }

DeployOutcomes == DeployOutcomesOver(1..Len(DeployCommands), ErrTexts)

DestroyOutcomesOver(failPoints, errs) ==
    { [failAt |-> k, err |-> e, print |-> TRUE] : k \in failPoints, e \in errs }
    \cup { [failAt |-> 0, err |-> "", print |-> TRUE] }

DestroyOutcomes == DestroyOutcomesOver(1..Len(DestroyCommands), ErrTexts)

\* deploy(): credentials, project directory, the commands, the stack outputs
deploy(project_name, credentials, dirs, o) ==
    IF credentials # "json"
    THEN [result |-> Json("error", "Deployment failed: {str(e)}", "", "JSONDecodeError"),
          calls |-> << >>]
    ELSE IF project_name = << >>
    THEN [result |-> Json("error", "Deployment failed: {str(e)}", "",
                          "No project name specified"),
          calls |-> << >>]
    ELSE IF project_name \notin dirs
    THEN [result |-> Json("error", "Deployment failed: {str(e)}", "",
                          "Project directory {project_name} does not exist"),
          calls |-> << >>]
    ELSE LET run == RunCommands(DeployCommands, project_name, project_name,
                                o.failAt, o.err)
         IN  IF o.failAt # 0
             THEN [result |-> Json("error",
                                   "Deployment failed: Command failed: {cmd}\nError: {result.stderr}",
                                   DeployCommands[o.failAt], o.err),
                   calls |-> run]
             ELSE LET rc == IF o.output = "nonzero" THEN 1 ELSE 0
                      out == Call("subprocess", OutputCommand, project_name,
                                  project_name, rc, "")
                  IN  IF rc = 0
                      THEN IF o.output = "json"
                           THEN [result |-> Json("success",
                                                 "Deployment completed successfully", "", ""),
                                 calls |-> Append(run, out)]
                           ELSE [result |-> Json("error", "Deployment failed: {str(e)}",
                                                 "", "JSONDecodeError"),
                                 calls |-> Append(run, out)]
                      ELSE [result |-> Json("success",
                                            "Deployment completed successfully, but couldn't fetch URLs",
                                            "", ""),
                            calls |-> Append(run, out)]

\* destroy(): credentials, then the commands run in the project directory
\* (subprocess.run raises before running anything when cwd does not exist)
destroy(project_name, credentials, dirs, o) ==
    IF credentials # "json"
    THEN [result |-> Json("error", "Destroy failed: {str(e)}", "", "JSONDecodeError"),
          calls |-> << >>]
    ELSE IF project_name \notin dirs
    THEN [result |-> Json("error", "Destroy failed: {str(e)}", "", "FileNotFoundError"),
          calls |-> << >>]
    ELSE LET run == RunCommands(DestroyCommands, project_name, project_name,
                                o.failAt, o.err)
         IN  IF o.failAt # 0
             THEN [result |-> Json("error",
                                   "Destroy failed: Command failed: {cmd}\nError: {result.stderr}",
                                   DestroyCommands[o.failAt], o.err),
                   calls |-> run]
             ELSE [result |-> Json("success", "Application successfully destroyed", "", ""),
                   calls |-> run]

\* DeploymentAgent.process: the action and the project name parsed from the message
DeploymentProcess(message, credentials, dirs, o) ==
    IF StartsWith(Lower(message), DestroyWord)
    THEN destroy(LastToken(message), credentials, dirs, o)
    ELSE deploy(LastToken(message), credentials, dirs, o)

\* an outcome in which standard output is closed: print() raises
PrintFails(o) == [o EXCEPT !.print = FALSE]

\* BaseAgent.communicate of the deployment agent: print, process, print,
\* outside any try: a print() that raises is raised to the caller before
\* process() is entered
DeploymentCommunicate(message, credentials, dirs, o) ==
    IF o.print
    THEN LET d == DeploymentProcess(message, credentials, dirs, o)
         IN  [raised |-> FALSE, result |-> d.result, calls |-> d.calls]
    ELSE [raised |-> TRUE, result |-> Plain("OSError"), calls |-> << >>]

(***************************************************************************)
(* PulumiCopilotAgent (idea_code.py).                                      *)
(***************************************************************************)
\* what analyze_code meets: no main.go, the HTTP request raises, the body is
\* not JSON, the body holds no assistant response, or it holds one
AnalysisOutcomes ==
    { "no main.go", "http exception", "not json", "no analysis", "analysis" }

HttpPost(rc) == Call("http", "POST https://api.pulumi.com/api/ai/chat/preview",
                     << >>, << >>, rc, "")

test_connection(o) ==
    IF o = "http exception"
    THEN [result |-> Json("error", "Connection test failed: {str(e)}", "", ""),
          calls |-> << HttpPost(1) >>]
    ELSE [result |-> Json(IF o = "analysis" THEN "success" ELSE "error",
                          "Status: {response.status}, Response: {response_text[:200]}",
                          "", ""),
          calls |-> << HttpPost(0) >>]

analyze_code(project_path, dirs, o) ==
    IF project_path \notin dirs \/ o = "no main.go"
    THEN [result |-> Json("error", "main.go not found in {project_path}", "", ""),
          calls |-> << >>]
    ELSE IF o = "http exception"
    THEN [result |-> Json("error", "Failed to analyze code: {str(e)}", "", ""),
          calls |-> << HttpPost(1) >>]
    ELSE IF o = "not json"
    THEN [result |-> Json("error", "Failed to parse response: {response_text[:200]}...", "", ""),
          calls |-> << HttpPost(0) >>]
    ELSE IF o = "no analysis"
    THEN [result |-> Json("error", "No analysis found in response", "", ""),
          calls |-> << HttpPost(0) >>]
    ELSE [result |-> JsonAnalysis("{content}"), calls |-> << HttpPost(0) >>]

\* PulumiCopilotAgent.process
CopilotProcess(message, dirs, o) ==
    IF Lower(message) = TestConnection
    THEN test_connection(o)
    ELSE IF Contains(Lower(message), AnalyzeWord)
    THEN analyze_code(LastToken(message), dirs, o)
    ELSE [result |-> Plain("Unknown command"), calls |-> << >>]

\* BaseAgent.communicate of the copilot agent: a print() that raises is raised
\* to the caller before process() is entered
CopilotCommunicate(message, dirs, o, print) ==
    IF print
    THEN LET a == CopilotProcess(message, dirs, o)
         IN  [raised |-> FALSE, result |-> a.result, calls |-> a.calls]
    ELSE [raised |-> TRUE, result |-> Plain("OSError"), calls |-> << >>]

(***************************************************************************)
(* PlatformOrchestrator (idea_code.py).                                    *)
(***************************************************************************)
Template == "static-website-azure-go"

NewCommand == "pulumi new {template} -s talkitdoit-org/{project_name}/dev --yes --force"

\* what create_new_project meets: os.makedirs raises, the scaffold command
\* exits non-zero, writing www/index.html raises, or all succeed.
\* os.makedirs("") always raises.
CreateOutcomesOver(project_name, errs) ==
    IF project_name = << >>
    THEN { [step |-> "makedirs", err |-> ""] }
    ELSE { [step |-> "makedirs", err |-> ""], [step |-> "write", err |-> ""],
           [step |-> "ok", err |-> ""] }
         \cup { [step |-> "command", err |-> e] : e \in errs }

\* create_new_project: every failure is re-raised as one exception
create_new_project(template, project_name, dirs, o) ==
    LET enter == Enter("create_new_project", project_name,
                       IF o.step = "ok" THEN "returned" ELSE "raised")
        new(rc, err) == Call("subprocess", NewCommand, project_name, project_name, rc, err)
    IN  IF o.step = "makedirs"
        THEN [raised |-> TRUE, value |-> "Failed to create project: {str(e)}",
              error |-> "OSError", calls |-> << enter >>, dirs |-> dirs]
        ELSE IF o.step = "command"
        THEN [raised |-> TRUE, value |-> "Failed to create project: Command failed: {cmd}\nError: {result.stderr}",
              error |-> o.err, calls |-> << enter, new(1, o.err) >>,
              dirs |-> dirs \cup { project_name }]
        ELSE IF o.step = "write"
        THEN [raised |-> TRUE, value |-> "Failed to create project: {str(e)}",
              error |-> "OSError", calls |-> << enter, new(0, "") >>,
              dirs |-> dirs \cup { project_name }]
        ELSE [raised |-> FALSE,
              value |-> "Project created successfully with custom dark mode template",
              error |-> "", calls |-> << enter, new(0, "") >>,
              dirs |-> dirs \cup { project_name }]

\* process_request: the responses list and the invocations made, or the
\* exception of communicate passed on (raised: the responses are never returned)
process_request(name, action, credentials, dirs, git, o) ==
    IF action = "destroy"
    THEN LET d == DeploymentCommunicate(DestroyPrefix \o Str(name), credentials, dirs, o)
         IN  [raised |-> d.raised,
              responses |-> << d.result >>,
              calls |-> << Enter("process_request destroy", name,
                                 IF d.raised THEN "raised" ELSE StatusOf(d.result)) >>
                        \o d.calls]
    ELSE LET r == create_repository(name, git)
             c == commit_code(name, git)
             d == DeploymentCommunicate(DeployPrefix \o Str(name), credentials, dirs, o)
         IN  [raised |-> d.raised,
              responses |-> << Plain("Using newly created Pulumi project"), d.result >>,
              calls |-> << Enter("process_request deploy", name,
                                 IF d.raised THEN "raised" ELSE StatusOf(d.result)) >>
                        \o r.calls \o c.calls \o d.calls]

(***************************************************************************)
(* AIChatInterface (chat_interface.py).                                    *)
(***************************************************************************)
VARIABLES
    conversation_history,              \* self.conversation_history
    current_project,                   \* self.current_project
    awaiting_project_name,             \* self.awaiting_project_name
    awaiting_deployment_confirmation,  \* self.awaiting_deployment_confirmation
    azure_credentials,                 \* DeploymentAgent.azure_credentials: JSON or not
    dirs,                              \* the project directories on disk
    response,                          \* what the last process_message returned
    calls,                             \* the invocations the last process_message made
    pre,                               \* the fields as the last process_message found them
    live                               \* the projects created and not destroyed since

vars == << conversation_history, current_project, awaiting_project_name,
           awaiting_deployment_confirmation, azure_credentials, dirs,
           response, calls, pre, live >>

\* a reply: its fixed text, the project it names, the listed responses and
\* the exception text it quotes
Reply(text, project, items, error) ==
    [text |-> text, project |-> project, items |-> items, error |-> error]

NoReply == Reply("", None, << >>, "")

UserEntry(user_message) ==
    [role |-> "User", message |-> user_message, response |-> NoReply]

AssistantEntry(r) ==
    [role |-> "Assistant", message |-> << >>, response |-> r]

\* NormalizeName with the spaces replaced before the ends are stripped
NormalizeName_ReplacesFirst(user_message) == Lower(Strip(ReplaceSpaces(user_message)))

\* the project identifier derived from the message
NormalizeName(user_message) == Lower(ReplaceSpaces(Strip(user_message)))

\* any(word in message_lower for word in ["yes", "sure", "okay"])
Affirmative(message_lower) ==
    \E word \in { Yes, Sure, Okay } : Contains(message_lower, word)

\* the if/elif chain of process_message: the branch a message takes
Branch(user_message, awaiting_name, awaiting_deployment, project) ==
    LET message_lower == Lower(user_message)
    IN  IF awaiting_name THEN "project name"
        ELSE IF awaiting_deployment /\ Affirmative(message_lower) THEN "confirm"
        ELSE IF Contains(message_lower, DeployWord) /\ Truthy(project) THEN "deploy"
        ELSE IF \/ Contains(message_lower, DestroyWord)
                \/ Contains(message_lower, RemoveWord)
                \/ Contains(message_lower, DeleteWord) THEN "destroy"
        ELSE IF /\ Contains(message_lower, CreateWord)
                /\ Contains(message_lower, StaticWebsite) THEN "create"
        ELSE "other"

\* the fields a branch leaves as they are
Keep ==
    [current_project |-> current_project,
     awaiting_project_name |-> awaiting_project_name,
     awaiting_deployment_confirmation |-> awaiting_deployment_confirmation,
     dirs |-> dirs, calls |-> << >>, response |-> NoReply]

\* the analysis responses the name branch handles: those of the copilot agent,
\* a text that is not JSON, and the exception of a print() that raises
AnalysisResponses(project_name, d) ==
    { CopilotCommunicate(AnalyzePrefix \o project_name, d, o, TRUE) :
        o \in AnalysisOutcomes }
    \cup { [raised |-> FALSE, result |-> Plain("{not json}"),
             calls |-> << HttpPost(0) >>] }
    \cup { CopilotCommunicate(AnalyzePrefix \o project_name, d, "analysis", FALSE) }

SorryCreating == "Sorry, I encountered an error while creating the project: {str(e)}"

CreatedAndAnalyzed ==
    "I've created a new static website project '{project_name}' using Pulumi's Azure Go template. [...] Would you like me to proceed with deployment? (yes/no)"

AnalysisFailed ==
    "I've created the project '{project_name}', but the code analysis failed: [...] Would you like to proceed with deployment anyway? (yes/no)"

ParseFailed ==
    "Project created, but failed to parse the code analysis. Would you like to proceed with deployment? (yes/no)"

\* lines 96-97: an exception in the name branch; what was assigned stays assigned
CreationFailed(project, all, d, error) ==
    [Keep EXCEPT !.awaiting_project_name = FALSE,
                 !.current_project = project,
                 !.dirs = d, !.calls = all,
                 !.response = Reply(SorryCreating, << >>, << >>, error)]

\* AskDeployment with the flag set only after a successful analysis
AskDeployment_FlagOnSuccessOnly(project_name, all, d, text, items) ==
    [Keep EXCEPT !.awaiting_project_name = FALSE,
                 !.current_project = project_name,
                 !.awaiting_deployment_confirmation =
                     (text = CreatedAndAnalyzed \/ awaiting_deployment_confirmation),
                 !.dirs = d, !.calls = all,
                 !.response = Reply(text, project_name, items, "")]

\* lines 78-95: the reply that asks whether to deploy, and the flag it sets
AskDeployment(project_name, all, d, text, items) ==
    [Keep EXCEPT !.awaiting_project_name = FALSE,
                 !.current_project = project_name,
                 !.awaiting_deployment_confirmation = TRUE,
                 !.dirs = d, !.calls = all,
                 !.response = Reply(text, project_name, items, "")]

\* lines 65-95: the project was created; analyze it and ask
ProjectCreated(project_name, c, a, saved) ==
    LET analysis_data == a.result
        all == c.calls
               \o << Enter("copilot.communicate", AnalyzePrefix \o project_name,
                           IF a.raised THEN "raised" ELSE StatusOf(analysis_data)) >>
               \o a.calls
    IN  IF a.raised
        THEN CreationFailed(project_name, all, c.dirs, "OSError")
        ELSE IF ~analysis_data.parsable
        THEN AskDeployment(project_name, all, c.dirs, ParseFailed, << >>)
        ELSE IF analysis_data.status = "success"
        THEN IF saved
             THEN AskDeployment(project_name, all, c.dirs, CreatedAndAnalyzed,
                                << analysis_data >>)
             ELSE CreationFailed(project_name, all, c.dirs, "OSError")
        ELSE AskDeployment(project_name, all, c.dirs, AnalysisFailed,
                           << analysis_data >>)

\* HandleProjectName with a failed creation not raised to the handler
HandleProjectName_IgnoresFailure(user_message, co, a, saved) ==
    LET project_name == NormalizeName(user_message)
        c == create_new_project(Template, project_name, dirs, co)
    IN  ProjectCreated(project_name, c, a, saved)

\* lines 60-97: the message is the project name
HandleProjectName(user_message, co, a, saved) ==
    LET project_name == NormalizeName(user_message)
        c == create_new_project(Template, project_name, dirs, co)
    IN  IF c.raised
        THEN CreationFailed(current_project, c.calls, c.dirs, c.error)
        ELSE ProjectCreated(project_name, c, a, saved)

\* DeployRequest with an ApplicationSpec that does not carry the project's name
DeployRequest_Unnamed(git, o) ==
    process_request(None, "deploy", azure_credentials, dirs, git, o)

\* lines 102-111 and 135-143: the deployment request for the active project
DeployRequest(git, o) ==
    process_request(current_project, "deploy", azure_credentials, dirs, git, o)

Deployed == "I've deployed your application. Here's what happened:"

DeploymentAttempted == "Deployment attempt completed. Here's what happened:"

DeploymentCompleted == "Deployment completed. Here's what happened:"

SorryDeploying == "Sorry, I encountered an error while deploying: {str(e)}"

\* lines 110-131 and 142-163: run the deployment and word the reply
RunDeployment(git, o) ==
    LET p == DeployRequest(git, o)
        responses == p.responses
        deploy_data == responses[Len(responses)]
    IN  [Keep EXCEPT
            !.calls = p.calls,
            !.response =
                IF p.raised
                THEN Reply(SorryDeploying, << >>, << >>, "OSError")
                ELSE IF ~deploy_data.parsable
                THEN Reply(DeploymentCompleted, Str(current_project), responses, "")
                ELSE IF deploy_data.status = "success"
                THEN Reply(Deployed, Str(current_project), responses, "")
                ELSE Reply(DeploymentAttempted, Str(current_project), responses, "")]

\* HandleConfirmation without line 101: the flag is left set
HandleConfirmation_KeepsFlag(git, o) == RunDeployment(git, o)

\* HandleConfirmation dropping the project whose deployment did not succeed
HandleConfirmation_ForgetsFailedProject(git, o) ==
    LET r == RunDeployment(git, o)
    IN  [r EXCEPT !.awaiting_deployment_confirmation = FALSE,
                  !.current_project =
                      IF r.response.text = Deployed THEN current_project ELSE None]

\* lines 100-131: an affirmative reply to the deployment question
HandleConfirmation(git, o) ==
    [RunDeployment(git, o) EXCEPT !.awaiting_deployment_confirmation = FALSE]

\* lines 134-163: a deploy request for the active project
HandleDeploy(git, o) == RunDeployment(git, o)

NothingToDestroy ==
    "There's no active project to destroy. Would you like to create a new static website project?"

Destroyed == "I've destroyed your application. Here's what I did:"

DestroyAttempted == "I've attempted to destroy your application. Here's what happened:"

SorryDestroying ==
    "Sorry, I encountered an error while destroying the application: {str(e)}"

\* DestroyProject forgetting the project whatever the destruction returned
DestroyProject_ForgetsAlways(o) ==
    LET p == process_request(current_project, "destroy", azure_credentials,
                             dirs, CHOOSE g \in GitOutcomes : TRUE, o)
    IN  [Keep EXCEPT
            !.current_project = None, !.calls = p.calls,
            !.response =
                IF p.raised
                THEN Reply(SorryDestroying, << >>, << >>, "OSError")
                ELSE IF StatusOf(p.responses[1]) = "success"
                THEN Reply(Destroyed, Str(current_project), p.responses, "")
                ELSE Reply(DestroyAttempted, Str(current_project), p.responses, "")]

\* lines 170-199: run the destruction and word the reply
DestroyProject(o) ==
    LET p == process_request(current_project, "destroy", azure_credentials,
                             dirs, CHOOSE g \in GitOutcomes : TRUE, o)
        responses == p.responses
        destroy_data == responses[Len(responses)]
    IN  IF p.raised
        THEN [Keep EXCEPT
                !.calls = p.calls,
                !.response = Reply(SorryDestroying, << >>, << >>, "OSError")]
        ELSE IF destroy_data.parsable /\ destroy_data.status = "success"
        THEN [Keep EXCEPT
                !.current_project = None, !.calls = p.calls,
                !.response = Reply(Destroyed, Str(current_project), responses, "")]
        ELSE [Keep EXCEPT
                !.calls = p.calls,
                !.response = Reply(DestroyAttempted, Str(current_project), responses, "")]

\* HandleDestroy without the test of line 167
HandleDestroy_NoProjectTest(o) == DestroyProject(o)

\* lines 166-199: a destroy request
HandleDestroy(o) ==
    IF ~Truthy(current_project)
    THEN [Keep EXCEPT !.response = Reply(NothingToDestroy, << >>, << >>, "")]
    ELSE DestroyProject(o)

AskName ==
    "What would you like to name your project? (Please provide a simple name, it will be converted to lowercase with hyphens)"

\* HandleCreate starting afresh: the active project is forgotten
HandleCreate_ForgetsProject ==
    [Keep EXCEPT !.awaiting_project_name = TRUE, !.current_project = None,
                 !.response = Reply(AskName, << >>, << >>, "")]

\* HandleCreate keeping the flags exclusive: the other flag is cleared
HandleCreate_ClearsConfirmation ==
    [Keep EXCEPT !.awaiting_project_name = TRUE,
                 !.awaiting_deployment_confirmation = FALSE,
                 !.response = Reply(AskName, << >>, << >>, "")]

\* lines 202-204: a request to create a static website
HandleCreate ==
    [Keep EXCEPT !.awaiting_project_name = TRUE,
                 !.response = Reply(AskName, << >>, << >>, "")]

ProjectMenu ==
    "I can help you manage your project '{self.current_project}'. You can ask me to: [...]"

Menu == "I can help you create and manage static websites on Azure. [...]"

\* HandleOther resetting the conversation on an unknown message
HandleOther_ResetsFlags ==
    IF Truthy(current_project)
    THEN [Keep EXCEPT !.awaiting_deployment_confirmation = FALSE,
                      !.response = Reply(ProjectMenu, current_project, << >>, "")]
    ELSE [Keep EXCEPT !.awaiting_deployment_confirmation = FALSE,
                      !.response = Reply(Menu, << >>, << >>, "")]

\* lines 207-221: the capability menu
HandleOther ==
    IF Truthy(current_project)
    THEN [Keep EXCEPT !.response = Reply(ProjectMenu, current_project, << >>, "")]
    ELSE [Keep EXCEPT !.response = Reply(Menu, << >>, << >>, "")]

\* the state after AIChatInterface() is constructed, with AZURE_CREDENTIALS
\* holding the JSON blob of the four credential fields
Init ==
    /\ conversation_history = << >>
    /\ current_project = None
    /\ awaiting_project_name = FALSE
    /\ awaiting_deployment_confirmation = FALSE
    /\ azure_credentials = "json"
    /\ dirs = { }
    /\ response = NoReply
    /\ calls = << >>
    /\ pre = [current_project |-> None, awaiting_project_name |-> FALSE,
              awaiting_deployment_confirmation |-> FALSE]
    /\ live = { }

\* the conversation stops after MaxTurns messages
MoreTurns == Len(conversation_history) < 2 * MaxTurns

\* the outcomes of the external commands drawn in a conversation: one error
\* text, a failure of the last command of each list, and a closed standard
\* output
TurnErrTexts == { "error: access denied" }

TurnGitOutcomes ==
    { o \in GitOutcomesOver({ Len(GitCommands) }, TurnErrTexts) :
        o.get_repo /\ (o.create_repo \/ o.gitFailAt = 0) }

TurnDeployOutcomes ==
    DeployOutcomesOver({ Len(DeployCommands) }, TurnErrTexts)
    \cup { PrintFails([failAt |-> 0, err |-> "", output |-> "json", print |-> TRUE]) }

TurnDestroyOutcomes ==
    DestroyOutcomesOver({ Len(DestroyCommands) }, TurnErrTexts)
    \cup { PrintFails([failAt |-> 0, err |-> "", print |-> TRUE]) }

\* the projects that exist after a turn that made the calls cs: those that
\* existed, with the project create_new_project returned for, without the
\* project whose destruction returned status "success"
Live(l, cs) ==
    (l \cup { cs[i].arg : i \in { j \in DOMAIN cs :
                                     /\ cs[j].cmd = "create_new_project"
                                     /\ cs[j].returned = "returned" } })
    \ { cs[i].arg : i \in { j \in DOMAIN cs :
                               /\ cs[j].cmd = "process_request destroy"
                               /\ cs[j].returned = "success" } }

\* the replies that quote an exception
Apologies == { SorryCreating, SorryDeploying, SorryDestroying }

\* Turn in which an exception is not caught: line 223 is not reached and the
\* history ends with the user's entry
Turn_ExceptionEscapes(user_message, r) ==
    /\ conversation_history' =
          IF r.response.text \in Apologies
          THEN Append(conversation_history, UserEntry(user_message))
          ELSE conversation_history
                   \o << UserEntry(user_message), AssistantEntry(r.response) >>
    /\ current_project' = r.current_project
    /\ awaiting_project_name' = r.awaiting_project_name
    /\ awaiting_deployment_confirmation' = r.awaiting_deployment_confirmation
    /\ dirs' = r.dirs
    /\ response' = r.response
    /\ calls' = r.calls
    /\ pre' = [current_project |-> current_project,
               awaiting_project_name |-> awaiting_project_name,
               awaiting_deployment_confirmation |-> awaiting_deployment_confirmation]
    /\ live' = Live(live, r.calls)
    /\ UNCHANGED azure_credentials

\* process_message from its first line to its return, for the branch's result r
Turn(user_message, r) ==
    /\ conversation_history' =
          conversation_history \o << UserEntry(user_message), AssistantEntry(r.response) >>
    /\ current_project' = r.current_project
    /\ awaiting_project_name' = r.awaiting_project_name
    /\ awaiting_deployment_confirmation' = r.awaiting_deployment_confirmation
    /\ dirs' = r.dirs
    /\ response' = r.response
    /\ calls' = r.calls
    /\ pre' = [current_project |-> current_project,
               awaiting_project_name |-> awaiting_project_name,
               awaiting_deployment_confirmation |-> awaiting_deployment_confirmation]
    /\ live' = Live(live, r.calls)
    /\ UNCHANGED azure_credentials

BranchNow(user_message) ==
    Branch(user_message, awaiting_project_name, awaiting_deployment_confirmation,
           current_project)

ProcessProjectName ==
    /\ MoreTurns
    /\ \E user_message \in Messages :
        /\ BranchNow(user_message) = "project name"
        /\ \E co \in CreateOutcomesOver(NormalizeName(user_message), TurnErrTexts), saved \in BOOLEAN :
             \E a \in AnalysisResponses(NormalizeName(user_message),
                                        dirs \cup { NormalizeName(user_message) }) :
                Turn(user_message, HandleProjectName(user_message, co, a, saved))

ProcessConfirmation ==
    /\ MoreTurns
    /\ \E user_message \in Messages :
        /\ BranchNow(user_message) = "confirm"
        /\ \E git \in TurnGitOutcomes, o \in TurnDeployOutcomes :
                Turn(user_message, HandleConfirmation(git, o))

ProcessDeploy ==
    /\ MoreTurns
    /\ \E user_message \in Messages :
        /\ BranchNow(user_message) = "deploy"
        /\ \E git \in TurnGitOutcomes, o \in TurnDeployOutcomes :
                Turn(user_message, HandleDeploy(git, o))

ProcessDestroy ==
    /\ MoreTurns
    /\ \E user_message \in Messages :
        /\ BranchNow(user_message) = "destroy"
        /\ \E o \in TurnDestroyOutcomes : Turn(user_message, HandleDestroy(o))

ProcessCreate ==
    /\ MoreTurns
    /\ \E user_message \in Messages :
        /\ BranchNow(user_message) = "create"
        /\ Turn(user_message, HandleCreate)

ProcessOther ==
    /\ MoreTurns
    /\ \E user_message \in Messages :
        /\ BranchNow(user_message) = "other"
        /\ Turn(user_message, HandleOther)

Next ==
    \/ ProcessProjectName
    \/ ProcessConfirmation
    \/ ProcessDeploy
    \/ ProcessDestroy
    \/ ProcessCreate
    \/ ProcessOther

Spec == Init /\ [][Next]_vars

(***************************************************************************)
(* PlatformOrchestrator.process_request on its own: any project name,      *)
(* any directories on disk, any credentials blob and every outcome of the  *)
(* external commands.                                                      *)
(***************************************************************************)
\* the names process_request is given: two projects, and None
RequestNames == { << "m","y","-","s","i","t","e" >>, << "b" >>, None }

InitRequest ==
    /\ conversation_history = << >>
    /\ current_project \in RequestNames
    /\ awaiting_project_name = FALSE
    /\ awaiting_deployment_confirmation = FALSE
    /\ azure_credentials \in { "json", "not json" }
    /\ dirs \in SUBSET (RequestNames \ { None })
    /\ response = NoReply
    /\ calls = << >>
    /\ pre = [current_project |-> None, awaiting_project_name |-> FALSE,
              awaiting_deployment_confirmation |-> FALSE]
    /\ live = { }

\* process_request(app_spec, action) with app_spec.name = current_project
Request(action, git, o) ==
    LET p == process_request(current_project, action, azure_credentials, dirs, git, o)
    IN  /\ calls' = p.calls
        /\ response' = Reply(action, Str(current_project), p.responses, "")
        /\ UNCHANGED << conversation_history, current_project, awaiting_project_name,
                        awaiting_deployment_confirmation, azure_credentials, dirs, pre,
                        live >>

RequestDeploy ==
    /\ calls = << >>
    /\ \E git \in GitOutcomes, o \in DeployOutcomes : Request("deploy", git, o)

RequestDestroy ==
    /\ calls = << >>
    /\ \E o \in DestroyOutcomes :
          Request("destroy", CHOOSE g \in GitOutcomes : TRUE, o)

NextRequest == RequestDeploy \/ RequestDestroy

SpecRequest == InitRequest /\ [][NextRequest]_vars

(***************************************************************************)
(* The name turn on its own: process_message called while the project name *)
(* is awaited, with every short text as the message.                       *)
(***************************************************************************)
\* the characters of the names typed: a space, a tab, an upper-case letter, a
\* lower-case letter and a hyphen
NameChars == { " ", "\t", "M", "y", "-" }

\* the messages typed as a name: every text of up to MaxNameLen characters,
\* and "My Site"
NameInputs ==
    UNION { [1..n -> NameChars] : n \in 0..MaxNameLen }
    \cup { << "M","y"," ","S","i","t","e" >> }

CreateRequest ==
    << "c","r","e","a","t","e"," ","a"," ","s","t","a","t","i","c"," ","w","e","b","s","i","t","e" >>

\* the state after AIChatInterface() processed a create request: the name is awaited
InitName ==
    /\ conversation_history =
          << UserEntry(CreateRequest), AssistantEntry(Reply(AskName, << >>, << >>, "")) >>
    /\ current_project = None
    /\ awaiting_project_name = TRUE
    /\ awaiting_deployment_confirmation = FALSE
    /\ azure_credentials = "json"
    /\ dirs = { }
    /\ response = Reply(AskName, << >>, << >>, "")
    /\ calls = << >>
    /\ pre = [current_project |-> None, awaiting_project_name |-> FALSE,
              awaiting_deployment_confirmation |-> FALSE]
    /\ live = { }

\* process_message(user_message) taking the name branch
ProcessTypedName ==
    /\ awaiting_project_name
    /\ \E user_message \in NameInputs :
         \E co \in CreateOutcomesOver(NormalizeName(user_message), TurnErrTexts),
            saved \in BOOLEAN :
           \E a \in AnalysisResponses(NormalizeName(user_message),
                                      dirs \cup { NormalizeName(user_message) }) :
              Turn(user_message, HandleProjectName(user_message, co, a, saved))

NextName == ProcessTypedName

SpecName == InitName /\ [][NextName]_vars

(***************************************************************************)
(* What a state shows of the last call of process_message.                 *)
(***************************************************************************)
Processed == Len(conversation_history) > 0

\* the message of the last call
LastMessage == conversation_history[Len(conversation_history) - 1].message

LastLower == Lower(LastMessage)

\* the calls the last turn made of the method named
MethodCalls(method) ==
    { i \in DOMAIN calls : calls[i].kind = "method" /\ calls[i].cmd = method }

\* the external invocations of the last turn
ExternalCalls == { i \in DOMAIN calls : calls[i].kind \in ExternalKinds }

\* the rows of the dispatch table, on the fields as the last call found them
RowName == pre.awaiting_project_name

RowConfirm == pre.awaiting_deployment_confirmation /\ Affirmative(LastLower)

RowDeploy == Contains(LastLower, DeployWord) /\ Truthy(pre.current_project)

RowDestroy ==
    \/ Contains(LastLower, DestroyWord)
    \/ Contains(LastLower, RemoveWord)
    \/ Contains(LastLower, DeleteWord)

RowCreate == Contains(LastLower, CreateWord) /\ Contains(LastLower, StaticWebsite)

\* the last turn ran the deployment sequence exactly once, for the project
\* that was active when the message arrived
DeployedOnce ==
    /\ Cardinality(MethodCalls("process_request deploy")) = 1
    /\ \A i \in MethodCalls("process_request deploy") : calls[i].arg = pre.current_project
    /\ Cardinality({ i \in DOMAIN calls : calls[i].cmd = "create_repo" }) = 1
    /\ MethodCalls("process_request destroy") = { }
    /\ MethodCalls("create_new_project") = { }

(***************************************************************************)
(* C1                                                                      *)
(***************************************************************************)
\* C1 as stated: after a turn whose message holds "yes", "sure" or "okay" and
\* which began with awaiting_deployment_confirmation set, the deployment
\* sequence has run exactly once and the flag is false.
C1_AffirmativeDeploys ==
    (Processed /\ pre.awaiting_deployment_confirmation /\ Affirmative(LastLower))
        => (DeployedOnce /\ ~awaiting_deployment_confirmation)

\* C1 amended: the same, for a turn that began with awaiting_project_name
\* not set (the name row comes first).
C1_AffirmativeDeploysUnlessNaming ==
    (Processed /\ ~RowName /\ pre.awaiting_deployment_confirmation
               /\ Affirmative(LastLower))
        => (DeployedOnce /\ ~awaiting_deployment_confirmation)

\* a confirmed deployment that succeeded
C1_Witness ==
    /\ Processed /\ ~RowName /\ RowConfirm
    /\ DeployedOnce /\ ~awaiting_deployment_confirmation
    /\ response.text = Deployed

(***************************************************************************)
(* C2                                                                      *)
(***************************************************************************)
\* C2 as stated: after a turn whose message holds "destroy" and which began
\* with current_project None, the reply is the nothing-to-destroy message and
\* the turn made no external invocation.
C2_DestroyWithoutProject ==
    (Processed /\ Contains(LastLower, DestroyWord) /\ pre.current_project = None)
        => (response.text = NothingToDestroy /\ ExternalCalls = { })

\* C2 amended: the same, when no earlier row applies: the turn began with
\* awaiting_project_name not set, and not as an affirmative reply to the
\* deployment question.
C2_DestroyWithoutProjectNoEarlierRow ==
    (Processed /\ ~RowName /\ ~RowConfirm
               /\ Contains(LastLower, DestroyWord) /\ pre.current_project = None)
        => (response.text = NothingToDestroy /\ ExternalCalls = { } /\ calls = << >>)

\* "destroy" answered with the nothing-to-destroy message
C2_Witness ==
    /\ Processed /\ ~RowName /\ ~RowConfirm
    /\ Contains(LastLower, DestroyWord) /\ pre.current_project = None
    /\ response.text = NothingToDestroy

(***************************************************************************)
(* C3                                                                      *)
(***************************************************************************)
\* the project identifier the last message gives
LastName == NormalizeName(LastMessage)

\* the scaffold command was invoked for the name, and the analysis call for
\* the name was made after it
CreatedThenAnalyzed ==
    \E i \in DOMAIN calls : \E j \in DOMAIN calls :
        /\ i < j
        /\ calls[i].kind = "subprocess" /\ calls[i].cmd = NewCommand
        /\ calls[i].arg = LastName
        /\ calls[j].kind = "method" /\ calls[j].cmd = "copilot.communicate"
        /\ calls[j].arg = AnalyzePrefix \o LastName

AsksDeployment == { CreatedAndAnalyzed, AnalysisFailed, ParseFailed }

\* the last turn created a project and got the analysis response of status s
AnalysisReturned(s) ==
    /\ \E i \in MethodCalls("create_new_project") : calls[i].returned = "returned"
    /\ \E j \in MethodCalls("copilot.communicate") : calls[j].returned = s

\* C4: after a name turn in which the project was created and the analysis
\* response was not JSON or had a status other than success, the reply asks
\* whether to proceed with the deployment, awaiting_deployment_confirmation
\* is set and current_project is the new project.
C4_FailedAnalysisStillAsks ==
    (Processed /\ pre.awaiting_project_name
               /\ (AnalysisReturned("not json") \/ AnalysisReturned("error")))
        => /\ response.text \in AsksDeployment
           /\ response.text # CreatedAndAnalyzed
           /\ awaiting_deployment_confirmation
           /\ current_project = LastName

\* a project created whose analysis response was not JSON
C4_WitnessNotJson ==
    /\ Processed /\ pre.awaiting_project_name /\ AnalysisReturned("not json")
    /\ response.text = ParseFailed
    /\ awaiting_deployment_confirmation /\ ~pre.awaiting_deployment_confirmation
    /\ current_project = LastName /\ pre.current_project = None

(***************************************************************************)
(* C5 and C6, on process_request called on its own (SpecRequest).          *)
(***************************************************************************)
Requested == calls # << >>

\* the last response of the request: the result of deploy() or destroy()
Result == response.items[Len(response.items)]

IsProvisioning(c) ==
    c.kind = "subprocess" /\ c.cwd # BasePath /\ c.cmd # OutputCommand

\* the provisioning commands the request invoked, in the order invoked
Provisioning == SelectSeq(calls, IsProvisioning)

\* the command list of the requested action
Listed == IF response.text = "deploy" THEN DeployCommands ELSE DestroyCommands

OutputQueried ==
    \E i \in DOMAIN calls : calls[i].kind = "subprocess" /\ calls[i].cmd = OutputCommand

\* C5: deploy() and destroy() invoke the commands of their list in the listed
\* order; the first that exits non-zero is the last invoked, and the result
\* then has status "error" and holds that command's captured error text; when
\* none exits non-zero the whole list is invoked.
C5_CommandsInOrderUntilFailure ==
    Requested =>
        /\ Len(Provisioning) <= Len(Listed)
        /\ \A i \in DOMAIN Provisioning :
              /\ Provisioning[i].cmd = Listed[i]
              /\ Provisioning[i].rc # 0 =>
                    /\ i = Len(Provisioning)
                    /\ ~OutputQueried
                    /\ Result.status = "error"
                    /\ Result.cmd = Provisioning[i].cmd
                    /\ Result.error = Provisioning[i].stderr
                    /\ Result.error \in ErrTexts
        /\ (Provisioning # << >> /\ \A i \in DOMAIN Provisioning : Provisioning[i].rc = 0)
              => Len(Provisioning) = Len(Listed)

\* a deployment whose third command, the stack selection, exits non-zero
C5_WitnessDeploy ==
    /\ Requested /\ response.text = "deploy"
    /\ Len(Provisioning) = Len(DeployCommands) - 2
    /\ Provisioning[Len(Provisioning)].rc # 0
    /\ Result.status = "error"
    /\ Result.error = Provisioning[Len(Provisioning)].stderr

IsGit(c) ==
    c.kind = "github" \/ (c.kind = "subprocess" /\ c.cwd = BasePath)

\* C6: in a deploy request, a failing repository creation or git command is
\* the last invocation of the request, and its error text is in the result.
C6_GitFailureAborts ==
    (Requested /\ response.text = "deploy") =>
        \A i \in DOMAIN calls :
            (IsGit(calls[i]) /\ calls[i].rc # 0) =>
                /\ i = Len(calls)
                /\ \E k \in DOMAIN response.items :
                      response.items[k].error = calls[i].stderr

(***************************************************************************)
(* C7 to C10                                                               *)
(***************************************************************************)
\* C7: after a turn that took the deploy row (a message holding "deploy", a
\* project active, no earlier row applying), the deployment sequence has run
\* exactly once for that project, and current_project and
\* awaiting_project_name are as before.
C7_DeployMessageDeploys ==
    (Processed /\ ~RowName /\ ~RowConfirm /\ RowDeploy)
        => /\ DeployedOnce
           /\ current_project = pre.current_project
           /\ awaiting_project_name = pre.awaiting_project_name

\* "Deploy it" while the deployment question is still open: deployed
C7_Witness ==
    /\ Processed /\ ~RowName /\ ~RowConfirm /\ RowDeploy
    /\ pre.awaiting_deployment_confirmation
    /\ DeployedOnce /\ response.text = Deployed
    /\ current_project = pre.current_project

\* C8: after a turn that took the create row (a message holding "create" and
\* "static website", no earlier row applying), awaiting_project_name is set,
\* the reply asks for a name, nothing was invoked, and current_project and
\* awaiting_deployment_confirmation are as before.
C8_CreateAsksName ==
    (Processed /\ ~RowName /\ ~RowConfirm /\ ~RowDeploy /\ ~RowDestroy /\ RowCreate)
        => /\ awaiting_project_name
           /\ response.text = AskName
           /\ calls = << >>
           /\ current_project = pre.current_project
           /\ awaiting_deployment_confirmation = pre.awaiting_deployment_confirmation

\* a create request while a project is active
C8_Witness ==
    /\ Processed /\ ~RowName /\ ~RowConfirm /\ ~RowDeploy /\ ~RowDestroy /\ RowCreate
    /\ awaiting_project_name /\ response.text = AskName
    /\ Truthy(pre.current_project) /\ current_project = pre.current_project

\* C9: after a turn that took no row of the table, the reply is the capability
\* menu, nothing was invoked, and the two flags and current_project are as
\* before.
C9_OtherOnlyMenu ==
    (Processed /\ ~RowName /\ ~RowConfirm /\ ~RowDeploy /\ ~RowDestroy /\ ~RowCreate)
        => /\ response.text \in { Menu, ProjectMenu }
           /\ calls = << >>
           /\ awaiting_project_name = pre.awaiting_project_name
           /\ awaiting_deployment_confirmation = pre.awaiting_deployment_confirmation
           /\ current_project = pre.current_project

\* an unknown message while the deployment question is open
C9_Witness ==
    /\ Processed /\ ~RowName /\ ~RowConfirm /\ ~RowDeploy /\ ~RowDestroy /\ ~RowCreate
    /\ pre.awaiting_deployment_confirmation /\ awaiting_deployment_confirmation
    /\ Truthy(current_project) /\ response.text = ProjectMenu

\* C10: a create request made while awaiting_deployment_confirmation is set
\* leaves both flags set: nothing keeps them exclusive.
C10_CreateKeepsConfirmation ==
    (Processed /\ ~RowName /\ pre.awaiting_deployment_confirmation
               /\ ~RowConfirm /\ ~RowDeploy /\ ~RowDestroy /\ RowCreate)
        => (awaiting_project_name /\ awaiting_deployment_confirmation)

\* both flags true at the same time
C10_BothFlagsSet == awaiting_project_name /\ awaiting_deployment_confirmation

(***************************************************************************)
(* C11                                                                     *)
(***************************************************************************)
\* the last turn took the confirmation row
TookConfirm == Processed /\ ~RowName /\ RowConfirm

\* what process_request did in the last turn's deployment: "raised", or the
\* status of the deployment result
DeploymentReturned(s) ==
    \E i \in MethodCalls("process_request deploy") : calls[i].returned = s

\* C11: after a turn that took the confirmation row and whose deployment
\* failed (process_request raised, or the deployment result has status
\* "error"), awaiting_deployment_confirmation is false and current_project is
\* the project the turn began with.
C11_FailedConfirmation ==
    (TookConfirm /\ (DeploymentReturned("raised") \/ DeploymentReturned("error")))
        => /\ ~awaiting_deployment_confirmation
           /\ current_project = pre.current_project

\* a confirmed deployment of an active project fails at a provisioning command
C11_Witness ==
    /\ TookConfirm
    /\ DeploymentReturned("error")
    /\ Truthy(pre.current_project)
    /\ response.text = DeploymentAttempted
    /\ \E i \in ExternalCalls : IsProvisioning(calls[i]) /\ calls[i].rc # 0
    /\ ~awaiting_deployment_confirmation
    /\ current_project = pre.current_project

\* a confirmed deployment in which process_request raises
C11_WitnessRaised ==
    /\ TookConfirm
    /\ DeploymentReturned("raised")
    /\ Truthy(pre.current_project)
    /\ response.text = SorryDeploying

(***************************************************************************)
(* C12                                                                     *)
(***************************************************************************)
\* entry i of the history is a user's entry when i is odd and an assistant's
\* entry when i is even
Alternating(h) ==
    \A i \in DOMAIN h : h[i].role = IF i % 2 = 1 THEN "User" ELSE "Assistant"

\* one call of process_message: the history grows by the user's entry and the
\* reply's entry, after the entries it had
AppendsExchange ==
    LET n == Len(conversation_history)
        h == conversation_history'
    IN  /\ Len(h) = n + 2
        /\ SubSeq(h, 1, n) = conversation_history
        /\ h[n + 1].role = "User"
        /\ h[n + 2] = AssistantEntry(response')

\* C12: conversation_history is append-only: every call of process_message
\* appends the user's entry and then the assistant's entry and leaves the
\* earlier entries as they were, so the history always has an even number of
\* entries that alternate User, Assistant.
C12_AppendOnly ==
    /\ [](Len(conversation_history) % 2 = 0 /\ Alternating(conversation_history))
    /\ [][AppendsExchange]_vars

\* two or more messages were processed and the last turn ended in an apology
C12_Witness ==
    /\ Len(conversation_history) >= 4
    /\ Alternating(conversation_history)
    /\ response.text \in Apologies
    /\ conversation_history[Len(conversation_history)] = AssistantEntry(response)

(***************************************************************************)
(* C13                                                                     *)
(***************************************************************************)
\* an external operation of the last turn failed: an invocation exited
\* non-zero or raised, or a method raised
ExternalFailure ==
    \/ \E i \in ExternalCalls : calls[i].rc # 0
    \/ \E i \in DOMAIN calls : calls[i].kind = "method" /\ calls[i].returned = "raised"

\* the reply of the last turn shows a failure: it is an apology, or it lists a
\* result with status "error"
FailureShown ==
    \/ response.text \in Apologies
    \/ \E i \in DOMAIN response.items :
          response.items[i].parsable /\ response.items[i].status = "error"

\* a git step of the last turn failed and nothing else did
OnlyGitFailed ==
    /\ \E i \in ExternalCalls : IsGit(calls[i]) /\ calls[i].rc # 0
    /\ \A i \in ExternalCalls : calls[i].rc # 0 => IsGit(calls[i])
    /\ \A i \in DOMAIN calls : calls[i].returned # "raised"

\* C13: every call of process_message returns a reply, and when an external
\* operation failed during the call the reply is an apology or lists a result
\* with status "error".
C13_FailuresBecomeErrors ==
    Processed =>
        /\ conversation_history[Len(conversation_history)] = AssistantEntry(response)
        /\ response.text # ""
        /\ ExternalFailure => FailureShown

\* the reply part of C13 alone: every call of process_message returns a reply
C13_AlwaysReplies ==
    Processed =>
        /\ conversation_history[Len(conversation_history)] = AssistantEntry(response)
        /\ response.text # ""

\* no turn reports a deployment as done after a git step alone failed
C13_NoSilentGitFailure == ~(Processed /\ OnlyGitFailed /\ response.text = Deployed)

(***************************************************************************)
(* C14                                                                     *)
(***************************************************************************)
\* the name handed to create_new_project in the last turn
DerivedName ==
    calls[CHOOSE i \in MethodCalls("create_new_project") : TRUE].arg

\* name is message without the whitespace at its ends, with "-" for every
\* space and the lower-case letter for every letter: message is whitespace,
\* then Len(name) characters that neither begin nor end with whitespace, then
\* whitespace
IsNormalized(name, message) ==
    \E a \in 0..Len(message) :
        LET n == Len(name)
        IN  /\ a + n <= Len(message)
            /\ \A k \in 1..a : message[k] \in Whitespace
            /\ \A k \in (a + n + 1)..Len(message) : message[k] \in Whitespace
            /\ n > 0 => message[a + 1] \notin Whitespace
            /\ n > 0 => message[a + n] \notin Whitespace
            /\ \A k \in 1..n :
                  name[k] = IF message[a + k] = " " THEN "-"
                            ELSE LowerChar(message[a + k])

NoSpaceNoUpper(name) ==
    \A k \in DOMAIN name :
        /\ name[k] # " "
        /\ \A j \in DOMAIN UpperLetters : name[k] # UpperLetters[j]

\* C14: in a turn that began with awaiting_project_name set, the name handed
\* to create_new_project is the message stripped of the whitespace at its
\* ends, with every space replaced by a hyphen and every letter lower-cased
\* ("My Site" gives "my-site"); it holds no space and no upper-case letter,
\* normalizing it again gives the same name, and it is current_project when
\* the creation did not raise.
C14_DerivedName ==
    (Len(conversation_history) > 2 /\ RowName) =>
        /\ Cardinality(MethodCalls("create_new_project")) = 1
        /\ IsNormalized(DerivedName, LastMessage)
        /\ NoSpaceNoUpper(DerivedName)
        /\ NormalizeName(DerivedName) = DerivedName
        /\ LastMessage = << "M","y"," ","S","i","t","e" >>
              => DerivedName = << "m","y","-","s","i","t","e" >>
        /\ (\A i \in MethodCalls("create_new_project") : calls[i].returned = "returned")
              => current_project = DerivedName

\* a name typed with whitespace at an end, a space inside and an upper-case
\* letter became the active project
C14_Witness ==
    /\ Len(conversation_history) > 2 /\ RowName
    /\ LastMessage = << " ","M"," ","y" >>
    /\ DerivedName = << "m","-","y" >>
    /\ current_project = DerivedName

(***************************************************************************)
(* C15                                                                     *)
(***************************************************************************)
\* C15: in every reachable state, awaiting_deployment_confirmation set implies
\* that a project is active (current_project is not None).
C15_ConfirmationHasProject ==
    awaiting_deployment_confirmation => current_project # None

\* no affirmative reply starts the deployment sequence without a project
C15_ConfirmDeploysAProject ==
    (TookConfirm /\ MethodCalls("process_request deploy") # { })
        => pre.current_project # None

(***************************************************************************)
(* C16                                                                     *)
(***************************************************************************)
\* the last turn took the destroy row
TookDestroy == Processed /\ ~RowName /\ ~RowConfirm /\ ~RowDeploy /\ RowDestroy

\* what process_request did in the last turn's destruction: "raised", or the
\* status of the destruction result
DestroyReturned(s) ==
    \E i \in MethodCalls("process_request destroy") : calls[i].returned = s

\* create_new_project returned in the last turn
CreationReturned ==
    \E i \in MethodCalls("create_new_project") : calls[i].returned = "returned"

\* C16: a turn that took the destroy row with an active project ends with
\* current_project None when the destruction result has status "success",
\* and with current_project unchanged otherwise; and a turn that changes
\* current_project is one whose destruction succeeded or one in which
\* create_new_project returned.
C16_ProjectReset ==
    /\ (TookDestroy /\ Truthy(pre.current_project)) =>
            /\ Cardinality(MethodCalls("process_request destroy")) = 1
            /\ DestroyReturned("success") => current_project = None
            /\ ~DestroyReturned("success") => current_project = pre.current_project
    /\ (Processed /\ current_project # pre.current_project) =>
            \/ TookDestroy /\ DestroyReturned("success") /\ current_project = None
            \/ RowName /\ CreationReturned

\* a destruction that failed at a command left the project active
C16_Witness ==
    /\ TookDestroy
    /\ Truthy(pre.current_project)
    /\ DestroyReturned("error")
    /\ \E i \in ExternalCalls : IsProvisioning(calls[i]) /\ calls[i].rc # 0
    /\ response.text = DestroyAttempted
    /\ current_project = pre.current_project

\* a destruction in which process_request raised left the project active
C16_WitnessRaised ==
    /\ TookDestroy
    /\ DestroyReturned("raised")
    /\ response.text = SorryDestroying
    /\ current_project = pre.current_project

\* a destruction that succeeded reset the project
C16_WitnessSuccess ==
    /\ TookDestroy
    /\ Truthy(pre.current_project)
    /\ DestroyReturned("success")
    /\ current_project = None

(***************************************************************************)
(* C17                                                                     *)
(***************************************************************************)
\* C17: in every reachable state, every project that was created through
\* process_message and has not been destroyed with success is current_project.
C17_LiveProjectIsCurrent == \A p \in live : p = current_project

(***************************************************************************)
(* C18                                                                     *)
(***************************************************************************)
\* the last turn ran the deployment sequence for the active project
DeploymentRan ==
    /\ Processed
    /\ Truthy(pre.current_project)
    /\ \E i \in MethodCalls("process_request deploy") : calls[i].arg = pre.current_project

\* C18: after a turn in which the deployment sequence ran for the active
\* project, awaiting_deployment_confirmation is false.
C18_DeploymentClearsConfirmation ==
    DeploymentRan => ~awaiting_deployment_confirmation

\* no deployment started by an affirmative reply follows a turn that already
\* deployed the same project through a deploy message
C18_NoSecondDeployment ==
    ~ /\ TookConfirm /\ DeploymentRan
      /\ Len(conversation_history) >= 4
      /\ conversation_history[Len(conversation_history) - 2].response.text = Deployed
      /\ conversation_history[Len(conversation_history) - 2].response.project
            = pre.current_project

(***************************************************************************)
(* C19                                                                     *)
(***************************************************************************)
\* the five provisioning commands of deploy() were invoked and exited zero
AllProvisioned ==
    /\ Len(Provisioning) = Len(DeployCommands)
    /\ \A i \in DOMAIN Provisioning :
          Provisioning[i].cmd = DeployCommands[i] /\ Provisioning[i].rc = 0

\* C19: the result of a deploy request has status "success" exactly when the
\* five provisioning commands exited zero, whatever the stack-output query did.
C19_SuccessIffProvisioned ==
    (Requested /\ response.text = "deploy") =>
        (StatusOf(Result) = "success" <=> AllProvisioned)

\* the half of C19 that does not depend on the stack-output query: a result
\* with status "success" is the result of five commands that exited zero
C19_SuccessOnlyIfProvisioned ==
    (Requested /\ response.text = "deploy" /\ StatusOf(Result) = "success")
        => AllProvisioned

====
